---- MODULE Spec2Model ----
(***************************************************************************)
(* A model of ListingFileServer::handle (src/src/server.rs).               *)
(*                                                                         *)
(* A character is a one-character string, a name (URL segment, file name)  *)
(* a sequence of characters, a path a record [abs, comps] whose comps are  *)
(* names.  The filesystem is a function from the absolute paths of a small *)
(* universe of nodes to their kind.  handle is modelled one filesystem     *)
(* call at a time (probe, index open, read_dir, one is_dir per entry, file *)
(* open), so that a change of the filesystem can fall between two calls.   *)
(***************************************************************************)
EXTENDS Integers, Sequences, FiniteSets, TLC

VARIABLES
    windows,     \* cfg!(windows) of the build
    options,     \* self.options, a set of option names
    fs,          \* the filesystem: node -> kind
    changes,     \* number of filesystem changes so far
    pc,          \* position of handle
    uri,         \* req.uri().path(), raw (percent-encoded) characters
    followed,    \* the request is a client following a Redirect
    req_path,    \* req_path: [ok, buf]
    p,           \* path: root joined with req_path
    directory,   \* the directory label
    pending,     \* entries read_dir still has to yield
    entry_list,  \* entry_list, in enumeration order
    outcome,     \* the Outcome handle returned
    touched,     \* every path handle probed, opened or enumerated
    seen         \* what each filesystem call of this request observed

vars == <<windows, options, fs, changes, pc, uri, followed, req_path, p,
          directory, pending, entry_list, outcome, touched, seen>>

-----------------------------------------------------------------------------
(* Bounds *)

MaxChanges == 2
MaxSegs == 3

-----------------------------------------------------------------------------
(* Characters and strings *)

Code(c) ==
    CASE c = "%" -> 37 [] c = "*" -> 42 [] c = "-" -> 45 [] c = "." -> 46
      [] c = "/" -> 47 [] c = "2" -> 50 [] c = "3" -> 51 [] c = "5" -> 53
      [] c = ":" -> 58 [] c = "<" -> 60 [] c = ">" -> 62 [] c = "C" -> 67
      [] c = "E" -> 69 [] c = "F" -> 70 [] c = "\\" -> 92 [] c = "a" -> 97
      [] c = "b" -> 98 [] c = "c" -> 99 [] c = "d" -> 100 [] c = "e" -> 101
      [] c = "h" -> 104 [] c = "i" -> 105 [] c = "l" -> 108 [] c = "m" -> 109
      [] c = "n" -> 110 [] c = "t" -> 116 [] c = "w" -> 119 [] c = "x" -> 120

Alphabet ==
    {"%", "*", "-", ".", "/", "2", "3", "5", ":", "<", ">", "C", "E", "F",
     "\\", "a", "b", "c", "d", "e", "h", "i", "l", "m", "n", "t", "w", "x"}

Chr(n) == CHOOSE c \in Alphabet : Code(c) = n

HexDigits ==
    <<"0", "1", "2", "3", "4", "5", "6", "7", "8", "9", "A", "B", "C", "D", "E", "F">>

HexVal(c) == (CHOOSE i \in 1..16 : HexDigits[i] = c) - 1

StartsWith(s, c) == s # <<>> /\ s[1] = c

EndsWith(s, c) == s # <<>> /\ s[Len(s)] = c

Contains(s, c) == \E i \in 1..Len(s) : s[i] = c

\* str::replace(from, to) for single characters
Replace(s, from, to) == [i \in 1..Len(s) |-> IF s[i] = from THEN to ELSE s[i]]

\* Ord for str: byte-wise lexicographic order
RECURSIVE StrLess(_, _)
StrLess(s, t) ==
    IF t = <<>> THEN FALSE
    ELSE IF s = <<>> THEN TRUE
    ELSE IF Code(Head(s)) # Code(Head(t)) THEN Code(Head(s)) < Code(Head(t))
    ELSE StrLess(Tail(s), Tail(t))

\* the pieces of s between occurrences of c, empty pieces dropped
RECURSIVE SplitFrom(_, _, _)
SplitFrom(s, c, cur) ==
    IF s = <<>> THEN (IF cur = <<>> THEN <<>> ELSE <<cur>>)
    ELSE IF Head(s) = c
         THEN (IF cur = <<>> THEN <<>> ELSE <<cur>>) \o SplitFrom(Tail(s), c, <<>>)
         ELSE SplitFrom(Tail(s), c, Append(cur, Head(s)))

Split(s, c) == SplitFrom(s, c, <<>>)

RECURSIVE JoinWith(_, _)
JoinWith(names, sep) ==
    IF names = <<>> THEN <<>>
    ELSE IF Len(names) = 1 THEN names[1]
    ELSE names[1] \o <<sep>> \o JoinWith(Tail(names), sep)

-----------------------------------------------------------------------------
(* Names used by the model *)

W == <<"w">>
A == <<"a">>
AB == <<"a", "-", "b">>
B == <<"b">>
IndexHtml == <<"i", "n", "d", "e", "x", ".", "h", "t", "m", "l">>
DotH == <<".", "h">>
BSlash == <<"\\">>
DotDot == <<".", ".">>
SlashB == <<"/", "b">>
Drive == <<"c", ":">>
Star == <<"*">>
Lt == <<"a", "<">>
Gt == <<"a", ">">>

-----------------------------------------------------------------------------
(* The request URI *)

Reserved == {"/", "\\", "<", ">", "%"}

PctEncodeChar(c) ==
    IF c \in Reserved
    THEN <<"%", HexDigits[(Code(c) \div 16) + 1], HexDigits[(Code(c) % 16) + 1]>>
    ELSE <<c>>

RECURSIVE PctEncode(_)
PctEncode(s) == IF s = <<>> THEN <<>> ELSE PctEncodeChar(Head(s)) \o PctEncode(Tail(s))

RECURSIVE PctDecode(_)
PctDecode(s) ==
    IF s = <<>> THEN <<>>
    ELSE IF Head(s) = "%" /\ Len(s) >= 3
         THEN <<Chr(16 * HexVal(s[2]) + HexVal(s[3]))>> \o PctDecode(SubSeq(s, 4, Len(s)))
         ELSE <<Head(s)>> \o PctDecode(Tail(s))

\* the raw path a client sends for the decoded segments segs
UriPath(segs, trailing) ==
    <<"/">> \o JoinWith([i \in 1..Len(segs) |-> PctEncode(segs[i])], "/")
            \o (IF trailing /\ segs # <<>> THEN <<"/">> ELSE <<>>)

\* req.segments(0..): the non-empty raw segments, percent-decoded
Segments(u) == LET raw == Split(u, "/") IN [i \in 1..Len(raw) |-> PctDecode(raw[i])]

-----------------------------------------------------------------------------
(* Paths *)

EmptyPath == [abs |-> FALSE, comps |-> <<>>]

Root == [abs |-> TRUE, comps |-> <<W>>]

\* PathBuf::push: an absolute argument replaces the buffer
PathPush(buf, name) ==
    IF StartsWith(name, "/")
    THEN [abs |-> TRUE, comps |-> Split(name, "/")]
    ELSE [abs |-> buf.abs, comps |-> buf.comps \o Split(name, "/")]

\* PathBuf::pop: drops the last component; nothing to drop leaves it as it is
PathPop(buf) ==
    IF buf.comps = <<>> THEN buf
    ELSE [abs |-> buf.abs, comps |-> SubSeq(buf.comps, 1, Len(buf.comps) - 1)]

\* Path::join
PathJoin(base, rel) ==
    IF rel.abs THEN rel ELSE [abs |-> TRUE, comps |-> base.comps \o rel.comps]

\* MAIN_SEPARATOR of the build
Separator(win) == IF win THEN "\\" ELSE "/"

\* PathBuf::into_os_string().into_string()
PathString(path, win) ==
    (IF path.abs THEN <<Separator(win)>> ELSE <<>>) \o JoinWith(path.comps, Separator(win))

\* how the operating system walks a path: ".." steps up, "." stays
RECURSIVE CanonFrom(_, _)
CanonFrom(acc, comps) ==
    IF comps = <<>> THEN acc
    ELSE IF Head(comps) = DotDot
         THEN CanonFrom(IF acc = <<>> THEN acc ELSE SubSeq(acc, 1, Len(acc) - 1), Tail(comps))
    ELSE IF Head(comps) = <<".">> THEN CanonFrom(acc, Tail(comps))
    ELSE CanonFrom(Append(acc, Head(comps)), Tail(comps))

Canon(path) == CanonFrom(<<>>, path.comps)

IsPrefix(s, t) == Len(s) <= Len(t) /\ SubSeq(t, 1, Len(s)) = s

-----------------------------------------------------------------------------
(* Segments::to_path_buf of the http library, as handle calls it *)

\* mutant: the check for a '/' inside a segment is missing
BadSegmentNoSlash(segment, allow_dotfiles, win) ==
    \/ ~allow_dotfiles /\ StartsWith(segment, ".")
    \/ StartsWith(segment, "*")
    \/ EndsWith(segment, ":")
    \/ EndsWith(segment, ">")
    \/ EndsWith(segment, "<")
    \/ win /\ Contains(segment, "\\")

\* mutant: the check for a leading '.' is missing
BadSegmentNoDot(segment, allow_dotfiles, win) ==
    \/ StartsWith(segment, "*")
    \/ EndsWith(segment, ":")
    \/ EndsWith(segment, ">")
    \/ EndsWith(segment, "<")
    \/ Contains(segment, "/")
    \/ win /\ Contains(segment, "\\")

\* the conditions under which to_path_buf refuses a segment
BadSegment(segment, allow_dotfiles, win) ==
    \/ ~allow_dotfiles /\ StartsWith(segment, ".")
    \/ StartsWith(segment, "*")
    \/ EndsWith(segment, ":")
    \/ EndsWith(segment, ">")
    \/ EndsWith(segment, "<")
    \/ Contains(segment, "/")
    \/ win /\ Contains(segment, "\\")

\* mutant: a ".." segment is pushed like any other segment
DotDotStepPush(buf) == [abs |-> buf.abs, comps |-> Append(buf.comps, DotDot)]

\* what to_path_buf does with a ".." segment
DotDotStep(buf) == PathPop(buf)

RECURSIVE ToPathBufFrom(_, _, _, _)
ToPathBufFrom(buf, segs, allow_dotfiles, win) ==
    IF segs = <<>> THEN [ok |-> TRUE, buf |-> buf]
    ELSE IF Head(segs) = DotDot
         THEN ToPathBufFrom(DotDotStep(buf), Tail(segs), allow_dotfiles, win)
    ELSE IF BadSegment(Head(segs), allow_dotfiles, win)
         THEN [ok |-> FALSE, buf |-> EmptyPath]
    ELSE ToPathBufFrom(PathPush(buf, Head(segs)), Tail(segs), allow_dotfiles, win)

\* req.segments(0..).ok().and_then(|s| s.to_path_buf(allow_dotfiles).ok())
ReqPath(u, opts, win) == ToPathBufFrom(EmptyPath, Segments(u), "DotFiles" \in opts, win)

-----------------------------------------------------------------------------
(* The filesystem *)

Kinds == {"absent", "file", "dir", "locked"}   \* locked: a directory without read permission

Outside == <<B>>                               \* /b, a file next to the root

Mutable ==
    {<<W, A>>, <<W, AB>>, <<W, B>>,
     <<W, A, IndexHtml>>, <<W, A, DotH>>, <<W, AB, BSlash>>}

Nodes == {Outside, Root.comps} \cup Mutable

Fixture ==
    [n \in Nodes |->
        CASE n = Outside -> "file"
          [] n = Root.comps -> "dir"
          [] n = <<W, A>> -> "dir"
          [] n = <<W, AB>> -> "dir"
          [] n = <<W, B>> -> "file"
          [] n = <<W, A, IndexHtml>> -> "file"
          [] n = <<W, A, DotH>> -> "file"
          [] n = <<W, AB, BSlash>> -> "dir"]

IsDirKind(k) == k \in {"dir", "locked"}

Parent(n) == SubSeq(n, 1, Len(n) - 1)

\* the kind of what a path denotes
KindAt(f, path) ==
    LET c == Canon(path) IN
    IF c = <<>> THEN "dir" ELSE IF c \in Nodes THEN f[c] ELSE "absent"

\* Path::is_dir
IsDir(f, path) == IsDirKind(KindAt(f, path))

\* NamedFile::open: opening a directory read-only succeeds where the platform allows it
NamedFileOpens(k, win) == k = "file" \/ (IsDirKind(k) /\ ~win)

\* the names read_dir yields for a directory
ChildNames(f, path) ==
    LET c == Canon(path) IN
    {n[Len(n)] : n \in {m \in Nodes : Len(m) = Len(c) + 1 /\ Parent(m) = c /\ f[m] # "absent"}}

\* one change of the filesystem by another process
ChangeAllowed(f, n, k) ==
    /\ k # f[n]
    /\ IsDirKind(f[Parent(n)])
    /\ \/ f[n] = "absent" /\ k \in {"file", "dir"}
       \/ f[n] # "absent" /\ k = "absent"
       \/ IsDirKind(f[n]) /\ IsDirKind(k)

Changed(f, n, k) ==
    [m \in Nodes |->
        IF m = n THEN k
        ELSE IF ~IsDirKind(k) /\ Len(m) > Len(n) /\ IsPrefix(n, m) THEN "absent"
        ELSE f[m]]

-----------------------------------------------------------------------------
(* The pure parts of handle *)

\* req.uri().map_path(|p| format!("{}/", p))
Normal(u) == u \o <<"/">>

\* mutant: the redirect does not look at the end of the request path
MustNormalizeAlways(u, opts) == "NormalizeDirs" \in opts

\* whether handle redirects a directory request
MustNormalize(u, opts) == "NormalizeDirs" \in opts /\ ~EndsWith(u, "/")

\* mutant: index.html is tried whatever the options say
TryIndexAlways(opts) == TRUE

\* whether handle tries index.html before listing
TryIndex(opts) == "Index" \in opts

\* the directory label: '/' + req_path with '\' replaced by '/', closed by a '/'
DirectoryLabel(rp, win) ==
    LET d == <<"/">> \o Replace(PathString(rp, win), "\\", "/") IN
    IF ~EndsWith(d, "/") THEN Append(d, "/") ELSE d

\* mutant: a directory entry gets no '/' marker
EntryKeyNoMark(f, dir, name) ==
    [is_dir |-> IsDir(f, PathJoin(dir, [abs |-> FALSE, comps |-> <<name>>])), entry |-> name]

\* the closure mapped over the entries: (Reverse(is_dir), entry)
EntryKey(f, dir, name) ==
    LET is_dir == IsDir(f, PathJoin(dir, [abs |-> FALSE, comps |-> <<name>>])) IN
    [is_dir |-> is_dir, entry |-> IF is_dir THEN Append(name, "/") ELSE name]

\* Ord of (Reverse<bool>, String)
KeyLess(x, y) ==
    IF x.is_dir # y.is_dir THEN x.is_dir ELSE StrLess(x.entry, y.entry)

RECURSIVE InsertKey(_, _)
InsertKey(sorted, x) ==
    IF sorted = <<>> THEN <<x>>
    ELSE IF KeyLess(x, Head(sorted)) THEN <<x>> \o sorted
    ELSE <<Head(sorted)>> \o InsertKey(Tail(sorted), x)

RECURSIVE SortKeys(_)
SortKeys(list) ==
    IF list = <<>> THEN <<>> ELSE InsertKey(SortKeys(Tail(list)), Head(list))

\* entry_list.sort_unstable(); entry_list.drain(..).map(|e| e.1).collect()
RenderedEntries(list) == LET s == SortKeys(list) IN [i \in 1..Len(s) |-> s[i].entry]

NoOutcome == [kind |-> "None", path |-> EmptyPath, target |-> <<>>, label |-> <<>>, entries |-> <<>>]

Forward == [NoOutcome EXCEPT !.kind = "Forward"]

ServeFile(path) == [NoOutcome EXCEPT !.kind = "ServeFile", !.path = path]

Redirect(target) == [NoOutcome EXCEPT !.kind = "Redirect", !.target = target]

RenderListing(label, entries) ==
    [NoOutcome EXCEPT !.kind = "RenderListing", !.label = label, !.entries = entries]

\* mutant: Outcome::from, where a failed open is a failure and not a forward
FromOrForwardFail(opened, path) ==
    IF opened THEN ServeFile(path) ELSE [NoOutcome EXCEPT !.kind = "Failure"]

\* Outcome::from_or_forward(req, data, NamedFile::open(path).await.ok())
FromOrForward(opened, path) == IF opened THEN ServeFile(path) ELSE Forward

\* mutant: a failed read_dir is answered with a failure
ReadDirFailedFailure == [NoOutcome EXCEPT !.kind = "Failure"]

\* what handle returns when read_dir fails
ReadDirFailed == Forward

NoneSeen ==
    [probe |-> "none", index |-> "none", read_dir |-> "none", open |-> "none",
     opens |-> 0, snap |-> {}, failed |-> {}, checked |-> {}]

-----------------------------------------------------------------------------
(* Requests *)

\* every segment to_path_buf tells apart
SegmentPool == {A, B, DotDot, DotH, BSlash, SlashB, Drive, Star, Lt, Gt}

SeqsUpTo(S, n) == UNION {[1..k -> S] : k \in 0..n}

\* requests of up to MaxSegs segments
ResolveRequests == SeqsUpTo(SegmentPool, MaxSegs)

\* the requests that name a node of the filesystem below the root, and the root
DispatchRequests == {SubSeq(n, 2, Len(n)) : n \in Nodes \ {Outside}}

-----------------------------------------------------------------------------
(* Init *)

OptionNames == {"DotFiles", "Index", "NormalizeDirs"}

Init ==
    /\ windows \in BOOLEAN
    /\ options \in SUBSET OptionNames
    /\ fs = Fixture
    /\ changes = 0
    /\ pc = "idle"
    /\ uri = <<>>
    /\ followed = FALSE
    /\ req_path = [ok |-> FALSE, buf |-> EmptyPath]
    /\ p = EmptyPath
    /\ directory = <<>>
    /\ pending = {}
    /\ entry_list = <<>>
    /\ outcome = NoOutcome
    /\ touched = {}
    /\ seen = NoneSeen

-----------------------------------------------------------------------------
(* handle, one filesystem call at a time *)

\* lines 124-143: resolve the request, probe the path, redirect
HandleProbe(u, fl) ==
    LET rp == ReqPath(u, options, windows)
        path == PathJoin(Root, rp.buf)
        k == KindAt(fs, path)
    IN  /\ uri' = u
        /\ followed' = fl
        /\ req_path' = rp
        /\ directory' = <<>>
        /\ pending' = {}
        /\ entry_list' = <<>>
        /\ UNCHANGED <<windows, options, fs, changes>>
        /\ IF ~rp.ok
           THEN /\ p' = EmptyPath
                /\ touched' = {}
                /\ seen' = NoneSeen
                /\ outcome' = Forward
                /\ pc' = "done"
           ELSE /\ p' = path
                /\ touched' = {path}
                /\ seen' = [NoneSeen EXCEPT !.probe = k]
                /\ IF IsDirKind(k)
                   THEN IF MustNormalize(u, options)
                        THEN outcome' = Redirect(Normal(u)) /\ pc' = "done"
                        ELSE /\ outcome' = NoOutcome
                             /\ pc' = IF TryIndex(options) THEN "index" ELSE "read_dir"
                   ELSE outcome' = NoOutcome /\ pc' = "open"

\* a request arrives
Receive(requests) ==
    /\ pc = "idle"
    /\ \E segs \in requests, trailing \in BOOLEAN : HandleProbe(UriPath(segs, trailing), FALSE)

\* the client follows a Redirect
Follow ==
    /\ pc = "done"
    /\ outcome.kind = "Redirect"
    /\ HandleProbe(outcome.target, TRUE)

\* lines 145-150: NamedFile::open(p.join("index.html"))
OpenIndex ==
    /\ pc = "index"
    /\ LET index == PathJoin(p, [abs |-> FALSE, comps |-> <<IndexHtml>>])
           k == KindAt(fs, index)
       IN  /\ touched' = touched \cup {index}
           /\ seen' = [seen EXCEPT !.index = k, !.opens = @ + 1]
           /\ IF NamedFileOpens(k, windows)
              THEN outcome' = ServeFile(index) /\ pc' = "done"
              ELSE outcome' = outcome /\ pc' = "read_dir"
    /\ UNCHANGED <<windows, options, fs, changes, uri, followed, req_path, p,
                   directory, pending, entry_list>>


\* lines 152-168, 195-196: read_dir(&p), and the directory label
ReadDir ==
    /\ pc = "read_dir"
    /\ LET k == KindAt(fs, p) IN
       /\ seen' = [seen EXCEPT !.read_dir = k, !.snap = IF k = "dir" THEN ChildNames(fs, p) ELSE {}]
       /\ IF k = "dir"
          THEN /\ directory' = DirectoryLabel(req_path.buf, windows)
               /\ pending' = ChildNames(fs, p)
               /\ outcome' = outcome
               /\ pc' = "entries"
          ELSE /\ directory' = directory
               /\ pending' = pending
               /\ outcome' = ReadDirFailed
               /\ pc' = "done"
    /\ UNCHANGED <<windows, options, fs, changes, uri, followed, req_path, p,
                   entry_list, touched>>

\* lines 170-184: the iterator yields one more entry; a failed read is filtered out
ListEntry ==
    /\ pc = "entries"
    /\ \E name \in pending, ok \in BOOLEAN :
         /\ pending' = pending \ {name}
         /\ IF ok
            THEN LET child == PathJoin(p, [abs |-> FALSE, comps |-> <<name>>]) IN
                 /\ entry_list' = Append(entry_list, EntryKey(fs, p, name))
                 /\ touched' = touched \cup {child}
                 /\ seen' = [seen EXCEPT !.checked = @ \cup {[name |-> name, kind |-> KindAt(fs, child)]}]
            ELSE /\ entry_list' = entry_list
                 /\ touched' = touched
                 /\ seen' = [seen EXCEPT !.failed = @ \cup {name}]
    /\ UNCHANGED <<windows, options, fs, changes, pc, uri, followed, req_path, p,
                   directory, outcome>>

\* lines 185-193: sort and render
Render ==
    /\ pc = "entries"
    /\ pending = {}
    /\ outcome' = RenderListing(directory, RenderedEntries(entry_list))
    /\ pc' = "done"
    /\ UNCHANGED <<windows, options, fs, changes, uri, followed, req_path, p,
                   directory, pending, entry_list, touched, seen>>

\* line 199: NamedFile::open(p)
OpenFile ==
    /\ pc = "open"
    /\ LET k == KindAt(fs, p) IN
       /\ seen' = [seen EXCEPT !.open = k, !.opens = @ + 1]
       /\ outcome' = FromOrForward(NamedFileOpens(k, windows), p)
    /\ pc' = "done"
    /\ UNCHANGED <<windows, options, fs, changes, uri, followed, req_path, p,
                   directory, pending, entry_list, touched>>

\* the response has been sent; handle waits for the next request
Reset ==
    /\ pc = "done"
    /\ pc' = "idle"
    /\ uri' = <<>>
    /\ followed' = FALSE
    /\ req_path' = [ok |-> FALSE, buf |-> EmptyPath]
    /\ p' = EmptyPath
    /\ directory' = <<>>
    /\ pending' = {}
    /\ entry_list' = <<>>
    /\ outcome' = NoOutcome
    /\ touched' = {}
    /\ seen' = NoneSeen
    /\ UNCHANGED <<windows, options, fs, changes>>

\* another process changes the filesystem (at most MaxChanges times)
FsChange ==
    /\ changes < MaxChanges
    /\ pc # "done"
    /\ \E n \in Mutable, k \in Kinds :
         /\ ChangeAllowed(fs, n, k)
         /\ fs' = Changed(fs, n, k)
    /\ changes' = changes + 1
    /\ UNCHANGED <<windows, options, pc, uri, followed, req_path, p, directory,
                   pending, entry_list, outcome, touched, seen>>

Next ==
    \/ Receive(DispatchRequests)
    \/ Follow
    \/ OpenIndex
    \/ ReadDir
    \/ ListEntry
    \/ Render
    \/ OpenFile
    \/ Reset
    \/ FsChange

Spec == Init /\ [][Next]_vars

\* the same handler on a fixed filesystem, for every request of up to MaxSegs segments
NextResolve ==
    \/ Receive(ResolveRequests)
    \/ Follow
    \/ OpenIndex
    \/ ReadDir
    \/ ListEntry
    \/ Render
    \/ OpenFile

SpecResolve == Init /\ [][NextResolve]_vars

-----------------------------------------------------------------------------
(* Path resolution: C1, C2, C7 (under SpecResolve) *)

\* a path is inside the root: absolute, below the root, without a ".." component,
\* and the operating system walks it to a place below the root
InsideRoot(t) ==
    /\ t.abs
    /\ IsPrefix(Root.comps, t.comps)
    /\ \A i \in 1..Len(t.comps) : t.comps[i] # DotDot
    /\ IsPrefix(Root.comps, Canon(t))

\* root/seg1/.../segk, walked as written, leaves the root for some k
WouldEscape(segs) ==
    /\ \E i \in 1..Len(segs) : segs[i] = DotDot
    /\ \E k \in 1..Len(segs) : ~IsPrefix(Root.comps, CanonFrom(Root.comps, SubSeq(segs, 1, k)))

-----------------------------------------------------------------------------
(* Dispatch: C4, C5, C6, C9 (under Spec) *)

DirProbed == pc # "idle" /\ req_path.ok /\ IsDirKind(seen.probe)

IndexPath == [abs |-> TRUE, comps |-> Append(p.comps, IndexHtml)]

C5_Normalize ==
    LET segs == Segments(uri) IN
        pc # "idle" =>
            /\ (DirProbed /\ "NormalizeDirs" \in options /\ ~EndsWith(uri, "/"))
               => /\ pc = "done"
                  /\ outcome = Redirect(Append(uri, "/"))
                  /\ seen.index = "none" /\ seen.read_dir = "none" /\ touched = {p}
            /\ outcome.kind = "Redirect"
               => /\ DirProbed /\ "NormalizeDirs" \in options /\ ~EndsWith(uri, "/")
                  /\ Len(outcome.target) = Len(uri) + 1
                  /\ EndsWith(outcome.target, "/")
                  /\ outcome.target[Len(outcome.target) - 1] # "/"
                  /\ Segments(outcome.target) = segs
            /\ (EndsWith(uri, "/") \/ "NormalizeDirs" \notin options \/ followed)
               => outcome.kind # "Redirect"

\* C5 witness: the client followed a redirect and got the listing
C5_Witness ==
    /\ pc = "done"
    /\ followed
    /\ "NormalizeDirs" \in options
    /\ outcome.kind = "RenderListing"

\* the entries of a listing are names read_dir found, marked or not
FromSnapshot ==
    \A i \in 1..Len(outcome.entries) :
        \E name \in seen.snap : outcome.entries[i] \in {name, Append(name, "/")}

-----------------------------------------------------------------------------
(* Listing: C3, C8, C10 (under Spec) *)

Marked(e) == EndsWith(e, "/")

\* the file name of a rendered entry
StripMark(e) == IF Marked(e) THEN SubSeq(e, 1, Len(e) - 1) ELSE e

\* (not is_directory, name) of x is at most that of y
NameKeyLE(x, y) ==
    IF Marked(x) # Marked(y) THEN Marked(x) ELSE ~StrLess(StripMark(y), StripMark(x))

\* C3: the rendered entries are sorted ascending by (not is_directory, file name):
\* directories first, each group in the lexicographic order of the names
C3_SortedByName ==
    outcome.kind = "RenderListing" =>
        \A i, j \in 1..Len(outcome.entries) :
            i < j => NameKeyLE(outcome.entries[i], outcome.entries[j])

\* C8: the label of a listing begins and ends with '/', is "/" for the root request,
\* has no doubled trailing separator, and is the request path, not the joined one
C8_Label ==
    LET segs == Segments(uri) IN
        outcome.kind = "RenderListing" =>
            LET l == outcome.label IN
            /\ StartsWith(l, "/")
            /\ EndsWith(l, "/")
            /\ segs = <<>> => l = <<"/">>
            /\ Len(l) >= 2 => l[Len(l) - 1] # "/"
            /\ Split(l, "/") = [i \in 1..Len(req_path.buf.comps) |->
                                   Replace(req_path.buf.comps[i], "\\", "/")]
               \/ Split(l, "/") = req_path.buf.comps
            /\ ~IsPrefix(<<"/">> \o Root.comps[1], l)

CheckedNames == {c.name : c \in seen.checked}

Vanished == {c.name : c \in {d \in seen.checked : d.kind = "absent"}}

Listed(name) == {i \in 1..Len(outcome.entries) : StripMark(outcome.entries[i]) = name}

====
